---- MODULE Spec2Model ----
(***************************************************************************)
(* A model of src/src/cp-mdp/pymdptoolbox/mdp.py: the compact (CP) MDP      *)
(* solvers CpMdpValueIteration, CpMdpValueIterationGS and                  *)
(* CpMdpPolicyIteration over the base class MDP.                           *)
(*                                                                         *)
(* Numbers.  The code computes in IEEE doubles.  The rewards and          *)
(* discounts drawn here are integers and 1/2, so every value function the  *)
(* solvers build is a dyadic rational of a few bits, on which the double   *)
(* arithmetic of the code is exact; epsilon (1/100, and 1/10000 in policy  *)
(* evaluation) enters only the thresholds those values are compared with.  *)
(* The model computes with exact rationals <<n, d>>, d > 0, in lowest      *)
(* terms.                                                                  *)
(*                                                                         *)
(* Arrays are functions over 0 .. n-1, indexed as in the source.  None is  *)
(* the empty array.                                                        *)
(***************************************************************************)
EXTENDS Integers, Sequences, FiniteSets, TLC

\* ------------------------------------------------------------ bounds
MaxS == 2
MaxA == 3
MaxB == 2
MaxIterArg == 2

\* ------------------------------------------------------------ rationals
Abs(x) == IF x < 0 THEN -x ELSE x

RECURSIVE GCD(_, _)
GCD(a, b) == IF b = 0 THEN a ELSE GCD(b, a % b)

RNorm(n, d) ==
    IF d = 1 THEN <<n, 1>>
    ELSE LET g == GCD(Abs(n), d) IN <<n \div g, d \div g>>

Rat(n) == <<n, 1>>
RZero == <<0, 1>>
ROne == <<1, 1>>

RAdd(x, y) ==
    IF x[2] = 1 /\ y[2] = 1 THEN <<x[1] + y[1], 1>>
    ELSE
    LET g == GCD(x[2], y[2])
    IN RNorm(x[1] * (y[2] \div g) + y[1] * (x[2] \div g), (x[2] \div g) * y[2])

RNeg(x) == <<-x[1], x[2]>>
RSub(x, y) == RAdd(x, RNeg(y))

RMul(x, y) ==
    IF x[2] = 1 /\ y[2] = 1 THEN <<x[1] * y[1], 1>>
    ELSE
    LET g1 == GCD(Abs(x[1]), y[2])
        g2 == GCD(Abs(y[1]), x[2])
    IN <<(x[1] \div g1) * (y[1] \div g2), (x[2] \div g2) * (y[2] \div g1)>>

\* x / y for y > 0
RDiv(x, y) == RMul(x, <<y[2], y[1]>>)

RLt(x, y) ==
    IF x[2] = y[2] THEN x[1] < y[1]
    ELSE
    LET g == GCD(x[2], y[2])
    IN x[1] * (y[2] \div g) < y[1] * (x[2] \div g)

RLe(x, y) == ~RLt(y, x)
RAbs(x) == <<Abs(x[1]), x[2]>>
RIsInt(x) == x[2] = 1

\* ------------------------------------------------------------ arrays
None == << >>
Len0(arr) == Cardinality(DOMAIN arr)
Zeros(n) == [i \in 0 .. n - 1 |-> RZero]

\* np.array(x): the elements computed and stored.
Array(x) == IF x = x THEN x ELSE x

RECURSIVE MaxFrom(_, _, _)
MaxFrom(arr, i, best) ==
    IF i >= Len0(arr) THEN best
    ELSE MaxFrom(arr, i + 1, IF RLt(best, arr[i]) THEN arr[i] ELSE best)

RECURSIVE MinFrom(_, _, _)
MinFrom(arr, i, best) ==
    IF i >= Len0(arr) THEN best
    ELSE MinFrom(arr, i + 1, IF RLt(arr[i], best) THEN arr[i] ELSE best)

ArrMax(arr) == MaxFrom(arr, 1, arr[0])
ArrMin(arr) == MinFrom(arr, 1, arr[0])
ArrSub(x, y) == [i \in DOMAIN x |-> RSub(x[i], y[i])]

getSpan(array) == RSub(ArrMax(array), ArrMin(array))

\* ------------------------------------------------------------ state
VARIABLES
    \* constructor arguments, fixed for a session
    states, succ_s, probability_s, Rin, rewardForm,
    discount, epsilon, max_iter_arg, policy0,
    \* the solver object
    kind, pc, err, S, A, R, split_succ_s, split_probability,
    V, policy, iter, max_iter, thresh,
    \* locals of run() kept for observation
    Vprev, variation, stop, n_different, policy_next, eval_itr,
    \* the outcome of an earlier value-iteration solve on the same arguments
    prev,
    \* argument and return value of a direct _bellmanOperator(V) call
    Varg, ret

args == <<states, succ_s, probability_s, Rin, rewardForm,
          discount, epsilon, max_iter_arg>>
fields == <<S, A, R, split_succ_s, split_probability>>
locals == <<Vprev, variation, stop, n_different, policy_next, eval_itr>>
call == <<Varg, ret>>
vars == <<args, policy0, kind, pc, err, fields, V, policy, iter, max_iter,
          thresh, locals, prev, call>>

\* ------------------------------------------------------------ MDP base class
\* _computeDimensions(transition): A = len(transition), and S is the length
\* of transition[0], the flat per-action successor array.
computeDimensions(transition) ==
    [S |-> Len0(transition[0]), A |-> Len0(transition)]

\* np.split(arr, n): n equal chunks, ValueError when n does not divide.
CanSplit(arr, n) == Len0(arr) % n = 0
Split(arr, n) ==
    LET c == Len0(arr) \div n
    IN [s \in 0 .. n - 1 |-> [i \in 0 .. c - 1 |-> arr[s * c + i]]]

\* _computeVectorReward: the same vector, reshaped to (states,), for every action.
computeVectorReward(reward, nS, nA) ==
    IF Len0(reward) # nS
    THEN [err |-> "ValueError", val |-> None]
    ELSE [err |-> "", val |-> [a \in 0 .. nA - 1 |-> [s \in 0 .. nS - 1 |-> reward[s]]]]

\* _computeMatrixReward(reward[a], transition[a]) on a scalar reward[a] and
\* the 1-D succ_s[a]: np.multiply gives a 1-D array and .sum(1) raises
\* AxisError (a ValueError).
computeMatrixReward(reward, transition) ==
    [err |-> "AxisError", val |-> None]

\* _computeReward: an ndarray of ndim 1 goes to _computeVectorReward; a
\* list has no .ndim (AttributeError) and is taken per action when its
\* length equals A, as a vector otherwise.  An error raised in the handler
\* is not caught again.
computeReward(reward, form, transition, nS, nA) ==
    IF form = "ndarray"
    THEN LET r == computeVectorReward(reward, nS, nA)
         IN IF r.err = "" THEN r
            ELSE IF Len0(reward) = nA
                 THEN computeMatrixReward(reward, transition)
                 ELSE r
    ELSE IF Len0(reward) = nA
         THEN computeMatrixReward(reward, transition)
         ELSE computeVectorReward(reward, nS, nA)

\* The asserts on discount and epsilon alone.
ConfigErrorLax(d, mi, e) ==
    IF ~(RLt(RZero, d) /\ RLe(d, ROne)) THEN "AssertionError:discount"
    ELSE IF ~RLt(RZero, e) THEN "AssertionError:epsilon"
    ELSE ""

\* The three configuration asserts of MDP.__init__, in source order.
ConfigError(d, mi, e) ==
    IF ~(RLt(RZero, d) /\ RLe(d, ROne)) THEN "AssertionError:discount"
    ELSE IF ~(mi > 0) THEN "AssertionError:max_iter"
    ELSE IF ~RLt(RZero, e) THEN "AssertionError:epsilon"
    ELSE ""

\* The first action whose successor or probability array np.split cannot
\* divide into nS equal chunks.
FirstBadSplit(succ, prob, nS, nA) ==
    CHOOSE a \in 0 .. nA - 1 :
        /\ ~CanSplit(succ[a], nS) \/ ~CanSplit(prob[a], nS)
        /\ \A b \in 0 .. a - 1 : CanSplit(succ[b], nS) /\ CanSplit(prob[b], nS)

\* MDP.__init__: the asserts, the dimensions, the reward, the per-state split.
\* Each field holds what was stored when an error ended the constructor:
\* max_iter is stored before its own assert, the dimensions before the
\* reward, and the chunks of the actions split before the failing np.split.
MDPInit(succ, prob, reward, form, nS, d, e, mi) ==
    LET dims == computeDimensions(succ)
        rr == computeReward(reward, form, succ, nS, dims.A)
        bad == [err |-> "", S |-> 0, A |-> 0, R |-> None, states |-> nS,
                discount |-> d, max_iter |-> mi,
                split_succ_s |-> None, split_probability |-> None]
    IN IF ConfigError(d, mi, e) = "AssertionError:discount"
       THEN [bad EXCEPT !.err = ConfigError(d, mi, e), !.max_iter = 0]
       ELSE IF ConfigError(d, mi, e) # ""
       THEN [bad EXCEPT !.err = ConfigError(d, mi, e)]
       ELSE IF rr.err # ""
       THEN [bad EXCEPT !.err = rr.err, !.S = dims.S, !.A = dims.A]
       ELSE IF \E a \in 0 .. dims.A - 1 :
                   ~CanSplit(succ[a], nS) \/ ~CanSplit(prob[a], nS)
       THEN LET fa == FirstBadSplit(succ, prob, nS, dims.A)
                ns == IF CanSplit(succ[fa], nS) THEN fa + 1 ELSE fa
            IN [bad EXCEPT !.err = "ValueError", !.S = dims.S, !.A = dims.A,
                           !.R = rr.val,
                           !.split_succ_s =
                               [a \in 0 .. ns - 1 |-> Split(succ[a], nS)],
                           !.split_probability =
                               [a \in 0 .. fa - 1 |-> Split(prob[a], nS)]]
       ELSE [err |-> "", S |-> dims.S, A |-> dims.A, R |-> rr.val, states |-> nS,
             discount |-> d, max_iter |-> mi,
             split_succ_s |-> [a \in 0 .. dims.A - 1 |-> Split(succ[a], nS)],
             split_probability |-> [a \in 0 .. dims.A - 1 |-> Split(prob[a], nS)]]

\* ------------------------------------------------------------ Bellman operator
\* np.dot(p, V[idx]): the sum over i of p[i] * V[idx[i]], in index order.
RECURSIVE DotFrom(_, _, _, _)
DotFrom(p, Vv, idx, i) ==
    IF i >= Len0(p) THEN RZero
    ELSE RAdd(RMul(p[i], Vv[idx[i]]), DotFrom(p, Vv, idx, i + 1))

Dot(p, Vv, idx) == DotFrom(p, Vv, idx, 0)

\* Q[a][s1] of _bellmanOperator, and of both Gauss-Seidel loops.
Qvalue(m, Vv, a, s1) ==
    RAdd(m.R[a][s1],
         RMul(m.discount, Dot(m.split_probability[a][s1], Vv, m.split_succ_s[a][s1])))

\* A scan that keeps the last index holding the maximum.
RECURSIVE ArgMaxFromLast(_, _, _)
ArgMaxFromLast(q, a, best) ==
    IF a >= Len0(q) THEN best
    ELSE ArgMaxFromLast(q, a + 1, IF RLe(q[best], q[a]) THEN a ELSE best)

\* ndarray.argmax: the first index holding the maximum.
RECURSIVE ArgMaxFrom(_, _, _)
ArgMaxFrom(q, a, best) ==
    IF a >= Len0(q) THEN best
    ELSE ArgMaxFrom(q, a + 1, IF RLt(q[best], q[a]) THEN a ELSE best)

ArgMax(q) == ArgMaxFrom(q, 1, 0)

Qcol(m, Vv, s1) == [a \in 0 .. m.A - 1 |-> Qvalue(m, Vv, a, s1)]

\* _bellmanOperator(V): (Q.argmax(axis=0), Q.max(axis=0)); a V of another
\* shape fails the assert.
bellmanOperator(m, Vv) ==
    IF Len0(Vv) # m.states
    THEN [err |-> "AssertionError", policy |-> None, value |-> None]
    ELSE [err |-> "",
          policy |-> [s1 \in 0 .. m.states - 1 |-> ArgMax(Qcol(m, Vv, s1))],
          value |-> [s1 \in 0 .. m.states - 1 |-> ArrMax(Qcol(m, Vv, s1))]]

\* ------------------------------------------------------------ value iteration
\* The real number log(x) / log(g) for 0 < g < 1 and x > 0, as far as its
\* ceiling goes: n is the smallest integer with g^n <= x, and exact says
\* that x is the power g^n itself (the quotient is the integer n).
\* n >= 1: the scan n = 1, 2, ... with pw = g^n.
RECURSIVE PowerIndexUp(_, _, _, _)
PowerIndexUp(x, g, n, pw) ==
    IF RLe(pw, x) THEN [n |-> n, exact |-> pw = x]
    ELSE PowerIndexUp(x, g, n + 1, RMul(pw, g))

\* n <= 0: the scan n = 0, -1, ... with pw = g^n.
RECURSIVE PowerIndexDown(_, _, _, _)
PowerIndexDown(x, g, n, pw) ==
    IF RLe(RDiv(pw, g), x) THEN PowerIndexDown(x, g, n - 1, RDiv(pw, g))
    ELSE [n |-> n, exact |-> pw = x]

PowerIndex(x, g) ==
    IF RLe(ROne, x) THEN PowerIndexDown(x, g, 0, ROne)
    ELSE PowerIndexUp(x, g, 1, g)

\* A fraction whose denominator is a power of two: a number a double holds
\* exactly.
IsDyadic(r) == \E k \in 0 .. 30 : r[2] = 2 ^ k

\* epsilon, discount and span, and every intermediate value of
\* (epsilon * (1 - discount) / discount) / span down to the quotient x, are
\* doubles without rounding.
ExactDoubles(e, d, span, x) ==
    /\ IsDyadic(e) /\ IsDyadic(d) /\ IsDyadic(span) /\ IsDyadic(x)
    /\ e[1] <= 32768 /\ d[2] <= 32768 /\ span[1] <= 32768

\* The exact powers x = g^n, as <<numerator of g, denominator of g, n>>, at
\* which the double quotient log(x) / log(g) of the exact doubles x and g
\* comes out above n (by a few ulps), so that its ceiling is n + 1: every
\* such power with g a dyadic fraction in (0, 1) and the numerator and
\* denominator of x below 2^31. At every other exact power in that range,
\* n <= 0 included, the quotient is n exactly.
LogQuotientAbove ==
    {<<1, 2, 29>>, <<3, 4, 3>>, <<3, 4, 6>>, <<3, 4, 9>>, <<3, 4, 12>>,
     <<3, 4, 13>>, <<1, 8, 7>>, <<1, 8, 9>>, <<3, 8, 9>>, <<5, 16, 7>>,
     <<7, 16, 3>>, <<7, 16, 6>>, <<9, 16, 3>>, <<9, 16, 6>>, <<13, 16, 3>>,
     <<13, 16, 6>>, <<31, 32, 3>>, <<31, 32, 5>>, <<31, 32, 6>>,
     <<11, 64, 3>>, <<31, 64, 3>>, <<37, 64, 3>>, <<39, 64, 5>>,
     <<51, 64, 3>>, <<57, 64, 3>>, <<59, 64, 3>>, <<25, 128, 3>>,
     <<35, 128, 3>>, <<51, 128, 3>>, <<57, 128, 3>>, <<61, 128, 3>>,
     <<81, 128, 3>>, <<99, 128, 3>>, <<101, 128, 3>>, <<15, 256, 3>>,
     <<23, 256, 3>>, <<31, 256, 3>>, <<35, 256, 3>>, <<37, 256, 3>>,
     <<49, 256, 3>>, <<53, 256, 3>>, <<65, 256, 3>>, <<81, 256, 3>>,
     <<83, 256, 3>>, <<93, 256, 3>>, <<103, 256, 3>>, <<107, 256, 3>>,
     <<109, 256, 3>>, <<131, 256, 3>>, <<159, 256, 3>>, <<169, 256, 3>>,
     <<179, 256, 3>>, <<229, 256, 3>>, <<235, 256, 3>>, <<253, 256, 3>>,
     <<3, 512, 3>>, <<23, 512, 3>>, <<27, 512, 3>>, <<29, 512, 3>>,
     <<57, 512, 3>>, <<61, 512, 3>>, <<81, 512, 3>>, <<111, 512, 3>>,
     <<125, 512, 3>>, <<159, 512, 3>>, <<163, 512, 3>>, <<169, 512, 3>>,
     <<171, 512, 3>>, <<205, 512, 3>>, <<207, 512, 3>>, <<211, 512, 3>>,
     <<217, 512, 3>>, <<219, 512, 3>>, <<231, 512, 3>>, <<257, 512, 3>>,
     <<263, 512, 3>>, <<269, 512, 3>>, <<275, 512, 3>>, <<289, 512, 3>>,
     <<295, 512, 3>>, <<297, 512, 3>>, <<309, 512, 3>>, <<311, 512, 3>>,
     <<315, 512, 3>>, <<319, 512, 3>>, <<325, 512, 3>>, <<335, 512, 3>>,
     <<347, 512, 3>>, <<375, 512, 3>>, <<389, 512, 3>>, <<409, 512, 3>>,
     <<413, 512, 3>>, <<429, 512, 3>>, <<467, 512, 3>>, <<483, 512, 3>>,
     <<489, 512, 3>>, <<505, 512, 3>>, <<27, 1024, 3>>, <<117, 1024, 3>>,
     <<135, 1024, 3>>, <<137, 1024, 3>>, <<157, 1024, 3>>, <<185, 1024, 3>>,
     <<199, 1024, 3>>, <<215, 1024, 3>>, <<221, 1024, 3>>, <<233, 1024, 3>>,
     <<251, 1024, 3>>, <<255, 1024, 3>>, <<259, 1024, 3>>, <<281, 1024, 3>>,
     <<283, 1024, 3>>, <<303, 1024, 3>>, <<333, 1024, 3>>, <<347, 1024, 3>>,
     <<381, 1024, 3>>, <<399, 1024, 3>>, <<427, 1024, 3>>, <<437, 1024, 3>>,
     <<445, 1024, 3>>, <<447, 1024, 3>>, <<449, 1024, 3>>, <<469, 1024, 3>>,
     <<491, 1024, 3>>, <<515, 1024, 3>>, <<519, 1024, 3>>, <<541, 1024, 3>>,
     <<581, 1024, 3>>, <<583, 1024, 3>>, <<621, 1024, 3>>, <<645, 1024, 3>>,
     <<663, 1024, 3>>, <<669, 1024, 3>>, <<681, 1024, 3>>, <<691, 1024, 3>>,
     <<699, 1024, 3>>, <<737, 1024, 3>>, <<739, 1024, 3>>, <<743, 1024, 3>>,
     <<751, 1024, 3>>, <<763, 1024, 3>>, <<803, 1024, 3>>, <<807, 1024, 3>>,
     <<829, 1024, 3>>, <<833, 1024, 3>>, <<853, 1024, 3>>, <<861, 1024, 3>>,
     <<871, 1024, 3>>, <<909, 1024, 3>>, <<913, 1024, 3>>, <<923, 1024, 3>>,
     <<945, 1024, 3>>, <<961, 1024, 3>>, <<969, 1024, 3>>, <<995, 1024, 3>>,
     <<997, 1024, 3>>, <<1011, 1024, 3>>, <<1013, 1024, 3>>,
     <<3121, 4096, 2>>, <<3731, 4096, 2>>, <<5229, 8192, 2>>,
     <<5879, 8192, 2>>, <<6729, 8192, 2>>, <<7041, 8192, 2>>,
     <<7329, 8192, 2>>, <<7747, 8192, 2>>, <<14015, 16384, 2>>,
     <<15111, 16384, 2>>, <<9357, 32768, 2>>, <<21813, 32768, 2>>,
     <<27113, 32768, 2>>, <<27327, 32768, 2>>, <<28431, 32768, 2>>,
     <<29955, 32768, 2>>}

\* The values int(math.ceil(math.log(x) / math.log(discount))) can take for
\* x = (epsilon * (1 - discount) / discount) / span computed in doubles.
\* Between two powers of the discount the rounding of the doubles does not
\* move the ceiling. At an exact power g^n it does: where every operand is
\* an exact double the quotient is the one tabulated above; elsewhere the
\* rounding of epsilon, discount, the threshold, x and the two logarithms
\* leaves the quotient at or below n (ceiling n) or above it (ceiling
\* n + 1).
CeilLogOutcomes(e, d, span) ==
    LET x == RDiv(RDiv(RMul(e, RSub(ROne, d)), d), span)
        r == PowerIndex(x, d)
    IN IF ~r.exact THEN {r.n}
       ELSE IF ExactDoubles(e, d, span, x)
       THEN {IF <<d[1], d[2], r.n>> \in LogQuotientAbove THEN r.n + 1 ELSE r.n}
       ELSE {r.n, r.n + 1}

\* epsilon * (1 - discount) / discount
Threshold(e, d) == RDiv(RMul(e, RSub(ROne, d)), d)

\* _boundIter(epsilon): one backup from self.V, its span against self.V,
\* max_iter = ceil(log(threshold / span) / log(discount * k)) with k = 1;
\* max_iters holds the values the double arithmetic can give it.
\* A span of 0 makes the quotient infinite and int(ceil(-inf)) raise
\* OverflowError.
boundIter(m, Vv, e) ==
    LET value == bellmanOperator(m, Vv).value
        span == getSpan(ArrSub(value, Vv))
    IN IF span = RZero
       THEN [err |-> "OverflowError", max_iters |-> {0}]
       ELSE [err |-> "", max_iters |-> CeilLogOutcomes(e, m.discount, span)]

\* The stopping test shared by both value-iteration loops.
StopReason(var, th, it, mi) ==
    IF RLt(var, th) THEN "Converged"
    ELSE IF it = mi THEN "MaxIterReached"
    ELSE "none"

\* A synchronous sweep: every state backed up from the V before the sweep.
GSSweepSync(m, Vv, s1) ==
    [s \in DOMAIN Vv |-> IF s < s1 THEN Vv[s] ELSE ArrMax(Qcol(m, Vv, s))]

\* One Gauss-Seidel sweep: V[s1] = max(Q) for s1 = 0 .. states-1, each
\* written before the next state is backed up.
RECURSIVE GSSweep(_, _, _)
GSSweep(m, Vv, s1) ==
    IF s1 >= m.states THEN Vv
    ELSE GSSweep(m, [Vv EXCEPT ![s1] = ArrMax(Qcol(m, Vv, s1))], s1 + 1)

\* The pass after the loop: per state, Q on the current self.V, then
\* self.V[s1] = Q.max() and policy.append(Q.argmax()).
RECURSIVE GSFinal(_, _, _, _)
GSFinal(m, Vv, pol, s1) ==
    IF s1 >= m.states THEN [V |-> Vv, policy |-> pol]
    ELSE LET q == Qcol(m, Vv, s1)
         IN GSFinal(m, [Vv EXCEPT ![s1] = ArrMax(q)],
                    [i \in 0 .. s1 |-> IF i = s1 THEN ArgMax(q) ELSE pol[i]], s1 + 1)

\* ------------------------------------------------------------ policy iteration
\* The asserts on a caller's policy0: shape (S,), integers, >= 0, < S,
\* S being self.S.
Policy0Error(p0, nS) ==
    IF Len0(p0) # nS THEN "AssertionError:shape"
    ELSE IF \E i \in DOMAIN p0 : ~RIsInt(p0[i]) THEN "AssertionError:integer"
    ELSE IF \E i \in DOMAIN p0 : p0[i][1] < 0 THEN "AssertionError:negative"
    ELSE IF \E i \in DOMAIN p0 : ~(p0[i][1] < nS) THEN "AssertionError:range"
    ELSE ""

\* (self.policy == aa).nonzero()[0]
Ind(pol, aa) == {i \in DOMAIN pol : pol[i] = aa}

\* Width of a per-state chunk of the split arrays.
Chunk(m) == Len0(m.split_succ_s[0][0])

\* What the assignments of _computePpolicyPRpolicy raise for action aa:
\* indexing the `states` rows with a larger index is an IndexError, and a
\* (k, B) block goes into the (k, A-1) rows only when B = A-1 or B = 1.
PpolicyErrorAt(m, pol, aa) ==
    IF Ind(pol, aa) = {} THEN ""
    ELSE IF \E i \in Ind(pol, aa) : i >= m.states THEN "IndexError"
    ELSE IF Chunk(m) # m.A - 1 /\ Chunk(m) # 1 THEN "ValueError"
    ELSE ""

RECURSIVE PpolicyErrorFrom(_, _, _)
PpolicyErrorFrom(m, pol, aa) ==
    IF aa >= m.A THEN ""
    ELSE IF PpolicyErrorAt(m, pol, aa) # "" THEN PpolicyErrorAt(m, pol, aa)
    ELSE PpolicyErrorFrom(m, pol, aa + 1)

\* A (B,) row written into a row of width A-1: copied when the widths
\* agree, its one entry repeated when B = 1.
Broadcast(row, w) ==
    [i \in 0 .. w - 1 |-> IF Len0(row) = w THEN row[i] ELSE row[0]]

\* _computePpolicyPRpolicy: rows of zeros of width A-1, overwritten for the
\* states whose policy entry is an action.
computePpolicyPRpolicy(m, pol) ==
    LET w == m.A - 1
        chosen(s1) == s1 \in DOMAIN pol /\ pol[s1] \in 0 .. m.A - 1
    IN [err |-> PpolicyErrorFrom(m, pol, 0),
        Rpolicy |-> [s1 \in 0 .. m.states - 1 |->
                        IF chosen(s1) THEN m.R[pol[s1]][s1] ELSE RZero],
        succ |-> [s1 \in 0 .. m.states - 1 |->
                        IF chosen(s1) THEN Broadcast(m.split_succ_s[pol[s1]][s1], w)
                        ELSE [i \in 0 .. w - 1 |-> 0]],
        prob |-> [s1 \in 0 .. m.states - 1 |->
                        IF chosen(s1) THEN Broadcast(m.split_probability[pol[s1]][s1], w)
                        ELSE [i \in 0 .. w - 1 |-> RZero]]]

\* Defaults of _evalPolicyIterative(V0=0, epsilon=0.0001, max_iter=100).
EvalEpsilonDen == 10000
EvalMaxIter == 100

\* np.absolute(policy_V - Vprev).max()
MaxAbsDiff(x, y) == ArrMax([i \in DOMAIN x |-> RAbs(RSub(x[i], y[i]))])

\* One pass of the while loop of _evalPolicyIterative: itr += 1, the
\* synchronous backup over the policy's rows, and the two stopping tests.
EvalStep(m, pp, st) ==
    IF st.done THEN st
    ELSE LET policy_V == Array([s1 \in 0 .. m.states - 1 |->
                            RAdd(pp.Rpolicy[s1],
                                 RMul(m.discount, Dot(pp.prob[s1], st.V, pp.succ[s1])))])
             var == MaxAbsDiff(policy_V, st.V)
             itr == st.itr + 1
         IN [V |-> policy_V, itr |-> itr,
             done |-> IF RLt(var, RMul(RDiv(RSub(ROne, m.discount), m.discount),
                                       <<1, EvalEpsilonDen>>))
                      THEN TRUE
                      ELSE itr = EvalMaxIter]

\* n passes of the loop; a pass after `done` changes nothing.  The passes
\* are composed by halves to keep the evaluation shallow.
RECURSIVE EvalLoop(_, _, _, _)
EvalLoop(m, pp, st, n) ==
    IF n = 0 THEN st
    ELSE IF n = 1 THEN EvalStep(m, pp, st)
    ELSE LET half == EvalLoop(m, pp, st, n \div 2)
         IN IF half.done THEN half ELSE EvalLoop(m, pp, half, n - (n \div 2))

evalPolicyIterative(m, pol) ==
    LET pp == Array(computePpolicyPRpolicy(m, pol))
    IN IF pp.err # "" THEN [err |-> pp.err, V |-> None, itr |-> 0]
       ELSE LET r == EvalLoop(m, pp, [V |-> Zeros(m.states), itr |-> 0, done |-> FALSE],
                              EvalMaxIter)
            IN [err |-> "", V |-> r.V, itr |-> r.itr]

\* x != y of two numpy vectors compares them entry by entry, a vector of
\* length 1 being broadcast over the other; other unequal lengths raise.
CanCompare(x, y) == Len0(x) = Len0(y) \/ Len0(x) = 1 \/ Len0(y) = 1
At(x, i) == IF Len0(x) = 1 THEN x[0] ELSE x[i]
CompareDomain(x, y) == IF Len0(x) = 1 THEN DOMAIN y ELSE DOMAIN x

\* (policy_next != self.policy).sum()
NDifferent(pn, pol) ==
    Cardinality({i \in CompareDomain(pn, pol) : At(pn, i) # At(pol, i)})

\* ------------------------------------------------------------ inputs
\* Grid-like compact models: action a moves state s to s + shift[a] (mod
\* states), shift[a] being 0 or 1; each state-action pair lists the B
\* consecutive states ending in that successor, the last of which carries
\* probability 1.  Entry j of a flat array belongs to state j \div B.
SuccArray(nS, nA, nB, shift) ==
    [a \in 0 .. nA - 1 |->
        [j \in 0 .. nS * nB - 1 |->
            ((j \div nB) + shift[a] + nS * nB - (nB - 1) + (j % nB)) % nS]]

ProbArray(nS, nA, nB) ==
    [a \in 0 .. nA - 1 |->
        [j \in 0 .. nS * nB - 1 |-> IF j % nB = nB - 1 THEN ROne ELSE RZero]]

\* Reward vectors: all 0, all 5, or 5 in one state and 0 elsewhere.
RewardVectors(nS) ==
    {[s \in 0 .. nS - 1 |-> Rat(0)], [s \in 0 .. nS - 1 |-> Rat(5)]}
    \cup {[s \in 0 .. nS - 1 |-> IF s = g THEN Rat(5) ELSE Rat(0)] : g \in 0 .. nS - 1}

\* Configurations <<discount, epsilon, max_iter>>: the valid ones, and the
\* ones that break one requirement or all three.
ValidConfigs ==
    {<<d, e, mi>> : d \in {<<1, 2>>, <<1, 1>>}, e \in {<<1, 100>>}, mi \in 1 .. MaxIterArg}
InvalidConfigs ==
    {<<<<0, 1>>, <<1, 100>>, 1>>, <<<<3, 2>>, <<1, 100>>, 1>>,
     <<<<1, 2>>, <<0, 1>>, 1>>, <<<<1, 2>>, <<1, 100>>, 0>>,
     <<<<0, 1>>, <<0, 1>>, 0>>}
Configs == ValidConfigs \cup InvalidConfigs

\* Caller-supplied starting policies for a model of nS states whose flat
\* per-action arrays have length len: the vectors [x, 0, ..., 0] and
\* [1, 1, ..., 1] of length len, and the zero vectors of length nS and
\* nS + 1.
Policy0Entries == {<<0 - 1, 1>>, <<1, 2>>, Rat(0), Rat(1), Rat(2)}
Policy0Args(nS, len) ==
    {[i \in 0 .. len - 1 |-> IF i = 0 THEN x ELSE RZero] : x \in Policy0Entries}
    \cup {[i \in 0 .. len - 1 |-> ROne]}
    \cup {[i \in 0 .. n - 1 |-> RZero] : n \in {nS, nS + 1}}

VIKinds == {"VI", "GS"}
NoPrev == [kind |-> "none", pc |-> "init", err |-> "", stop |-> "none",
           policy |-> None, V |-> None, iter |-> 0]
NoRet == [err |-> "nocall", policy |-> None, value |-> None]

\* The solver object as the operators above read it.
Self == [states |-> states, S |-> S, A |-> A, R |-> R, discount |-> discount,
         split_succ_s |-> split_succ_s, split_probability |-> split_probability]

\* No object, nothing run.
Blank ==
    /\ kind = "none" /\ pc = "init" /\ err = ""
    /\ S = 0 /\ A = 0 /\ R = None
    /\ split_succ_s = None /\ split_probability = None
    /\ V = None /\ policy = None /\ iter = 0 /\ max_iter = 0 /\ thresh = RZero
    /\ Vprev = None /\ variation = RZero /\ stop = "none"
    /\ n_different = 0 /\ policy_next = None /\ eval_itr = 0
    /\ policy0 = None

InitArgs ==
    \E nS \in 1 .. MaxS, nA \in 1 .. MaxA, nB \in 1 .. MaxB :
        \E shift \in [0 .. nA - 1 -> {0, 1}] :
            /\ states = nS
            /\ succ_s = SuccArray(nS, nA, nB, shift)
            /\ probability_s = ProbArray(nS, nA, nB)
            /\ Rin \in RewardVectors(nS)

\* With one successor per state-action pair, policy evaluation weighs it
\* A - 1 times; the arguments are kept to those on which its iterates stay
\* bounded: discount * (A - 1) <= 1.
InRange ==
    Len0(succ_s[0]) = states =>
        RLe(RMul(discount, Rat(Len0(succ_s) - 1)), ROne)

\* The reward is a numpy vector or a Python list of the same numbers.
Init ==
    /\ InitArgs
    /\ rewardForm \in {"ndarray", "list"}
    /\ \E c \in Configs : discount = c[1] /\ epsilon = c[2] /\ max_iter_arg = c[3]
    /\ InRange
    /\ Blank
    /\ prev = NoPrev
    /\ Varg = None /\ ret = NoRet

\* ------------------------------------------------------------ constructors
\* A solver is constructed on a fresh session, or as the other
\* value-iteration variant after one of them has been run and set aside.
MayConstruct(k) ==
    /\ pc = "init"
    /\ IF prev.kind = "none" THEN TRUE
       ELSE k \in VIKinds /\ prev.kind \in VIKinds /\ k # prev.kind

Base == MDPInit(succ_s, probability_s, Rin, rewardForm, states,
                discount, epsilon, max_iter_arg)

SetFields(m) ==
    /\ S' = m.S /\ A' = m.A /\ R' = m.R
    /\ split_succ_s' = m.split_succ_s
    /\ split_probability' = m.split_probability

\* CpMdpValueIteration.__init__ passes 7 arguments to MDP.__init__, which
\* takes 10: TypeError before anything is stored.
ConstructVI ==
    /\ MayConstruct("VI")
    /\ kind' = "VI" /\ pc' = "error" /\ err' = "TypeError"
    /\ UNCHANGED <<args, policy0, fields, V, policy, iter, max_iter, thresh,
                   locals, prev, call>>

\* CpMdpValueIterationGS.__init__ with initial_value = 0.
ConstructGS ==
    /\ MayConstruct("GS")
    /\ kind' = "GS"
    /\ LET m == Base
           b == boundIter(m, Zeros(states), epsilon)
       IN IF m.err # ""
          THEN /\ pc' = "error" /\ err' = m.err
               /\ SetFields(m)
               /\ max_iter' = m.max_iter
               /\ UNCHANGED <<V, iter, thresh>>
          ELSE /\ SetFields(m)
               /\ V' = Zeros(states)
               /\ iter' = 0
               /\ IF RLt(discount, ROne)
                  THEN IF b.err # ""
                       THEN /\ pc' = "error" /\ err' = b.err
                            /\ max_iter' = max_iter_arg
                            /\ thresh' = thresh
                       ELSE /\ pc' = "ready" /\ err' = ""
                            /\ max_iter' \in b.max_iters
                            /\ thresh' = Threshold(epsilon, discount)
                  ELSE /\ pc' = "ready" /\ err' = ""
                       /\ max_iter' = max_iter_arg
                       /\ thresh' = epsilon
    /\ UNCHANGED <<args, policy0, policy, locals, prev, call>>

\* CpMdpPolicyIteration.__init__, policy0 absent (None) or supplied.
ConstructPI ==
    /\ MayConstruct("PI")
    /\ \E p0 \in {None} \cup Policy0Args(states, Len0(succ_s[0])) :
        /\ policy0' = p0
        /\ kind' = "PI"
        /\ LET m == Base
           IN IF m.err # ""
              THEN /\ pc' = "error" /\ err' = m.err
                   /\ SetFields(m)
                   /\ max_iter' = m.max_iter
                   /\ UNCHANGED <<V, policy, iter>>
              ELSE /\ SetFields(m)
                   /\ iter' = 0
                   /\ max_iter' = max_iter_arg
                   /\ IF p0 = None
                      THEN /\ policy' = bellmanOperator(m, Zeros(states)).policy
                           /\ V' = Zeros(states)
                           /\ pc' = "ready" /\ err' = ""
                      ELSE IF Policy0Error(p0, m.S) # ""
                      THEN /\ pc' = "error" /\ err' = Policy0Error(p0, m.S)
                           /\ UNCHANGED <<V, policy>>
                      ELSE /\ policy' = [i \in DOMAIN p0 |-> p0[i][1]]
                           /\ V' = Zeros(states)
                           /\ pc' = "ready" /\ err' = ""
    /\ UNCHANGED <<args, thresh, locals, prev, call>>

\* ------------------------------------------------------------ run()
\* One pass of the while loop of CpMdpValueIteration.run.
VIStep ==
    LET b == bellmanOperator(Self, V)
        var == getSpan(ArrSub(b.value, V))
        why == StopReason(var, thresh, iter + 1, max_iter)
    IN /\ iter' = iter + 1
       /\ Vprev' = V
       /\ policy' = b.policy
       /\ V' = b.value
       /\ variation' = var
       /\ stop' = why
       /\ pc' = IF why = "none" THEN "loop" ELSE "done"
       /\ UNCHANGED <<err, n_different, policy_next, eval_itr>>

\* One pass of the while loop of CpMdpValueIterationGS.run.
GSStep ==
    LET Vnew == GSSweep(Self, V, 0)
        var == getSpan(ArrSub(Vnew, V))
        why == StopReason(var, thresh, iter + 1, max_iter)
    IN /\ iter' = iter + 1
       /\ Vprev' = V
       /\ V' = Vnew
       /\ variation' = var
       /\ stop' = why
       /\ pc' = IF why = "none" THEN "loop" ELSE "final"
       /\ UNCHANGED <<err, policy, n_different, policy_next, eval_itr>>

\* One pass of the while loop of CpMdpPolicyIteration.run: evaluate the
\* policy, improve it, compare.
PIStep ==
    \E e \in {evalPolicyIterative(Self, policy)} :
    LET pn == bellmanOperator(Self, e.V).policy
        nd == NDifferent(pn, policy)
        why == IF nd = 0 THEN "Converged"
               ELSE IF iter + 1 = max_iter THEN "MaxIterReached"
               ELSE "none"
    IN /\ iter' = iter + 1
       /\ IF e.err # ""
          THEN /\ pc' = "error" /\ err' = e.err
               /\ UNCHANGED <<V, policy, stop, n_different, policy_next, eval_itr>>
          ELSE IF ~CanCompare(pn, policy)
          THEN /\ pc' = "error" /\ err' = "ValueError"
               /\ V' = e.V /\ eval_itr' = e.itr /\ policy_next' = pn
               /\ UNCHANGED <<policy, stop, n_different>>
          ELSE /\ V' = e.V /\ eval_itr' = e.itr /\ policy_next' = pn
               /\ n_different' = nd
               /\ stop' = why
               /\ policy' = IF why = "none" THEN pn ELSE policy
               /\ pc' = IF why = "none" THEN "loop" ELSE "done"
               /\ err' = err
       /\ UNCHANGED <<Vprev, variation>>

\* run(), one loop pass at a time.
RunStep ==
    /\ pc \in {"ready", "loop"}
    /\ CASE kind = "VI" -> VIStep
         [] kind = "GS" -> GSStep
         [] OTHER -> PIStep
    /\ UNCHANGED <<args, policy0, kind, fields, max_iter, thresh, prev, call>>

\* The pass of CpMdpValueIterationGS.run after its loop, which ends run().
FinalPass ==
    /\ pc = "final"
    /\ LET f == GSFinal(Self, V, None, 0)
       IN /\ V' = f.V
          /\ policy' = f.policy
    /\ pc' = "done"
    /\ UNCHANGED <<args, policy0, kind, err, fields, iter, max_iter, thresh,
                   locals, prev, call>>

\* The caller sets a finished (or failed) value-iteration solver aside and
\* keeps what it read from it, to solve the same problem with the other
\* variant.
SetAside ==
    /\ pc \in {"done", "error"}
    /\ kind \in VIKinds
    /\ prev.kind = "none"
    /\ prev' = [kind |-> kind, pc |-> pc, err |-> err, stop |-> stop,
                policy |-> policy, V |-> V, iter |-> iter]
    /\ kind' = "none" /\ pc' = "init" /\ err' = ""
    /\ S' = 0 /\ A' = 0 /\ R' = None
    /\ split_succ_s' = None /\ split_probability' = None
    /\ V' = None /\ policy' = None /\ iter' = 0 /\ max_iter' = 0 /\ thresh' = RZero
    /\ Vprev' = None /\ variation' = RZero /\ stop' = "none"
    /\ n_different' = 0 /\ policy_next' = None /\ eval_itr' = 0
    /\ UNCHANGED <<args, policy0, call>>

Next ==
    \/ ConstructVI
    \/ ConstructGS
    \/ ConstructPI
    \/ RunStep
    \/ FinalPass
    \/ SetAside

Spec == Init /\ [][Next]_vars

\* ------------------------------------------------------------ direct calls
\* Value vectors handed to _bellmanOperator: every vector of the right
\* length over ValueEntries, and one that is too long.
ValueEntries == {Rat(0), <<1, 2>>, Rat(3)}
ValueVectors(nS) == [0 .. nS - 1 -> ValueEntries] \cup {Zeros(nS + 1)}

\* A constructed MDP object (MDP.__init__ has returned), nothing run.
InitB ==
    /\ InitArgs
    /\ rewardForm = "ndarray"
    /\ \E c \in ValidConfigs : discount = c[1] /\ epsilon = c[2] /\ max_iter_arg = c[3]
    /\ kind = "MDP" /\ pc = "ready" /\ err = ""
    /\ S = Base.S /\ A = Base.A /\ R = Base.R
    /\ split_succ_s = Base.split_succ_s
    /\ split_probability = Base.split_probability
    /\ V = None /\ policy = None /\ iter = 0
    /\ max_iter = max_iter_arg /\ thresh = RZero
    /\ Vprev = None /\ variation = RZero /\ stop = "none"
    /\ n_different = 0 /\ policy_next = None /\ eval_itr = 0
    /\ policy0 = None
    /\ prev = NoPrev
    /\ Varg = None /\ ret = NoRet

\* policy, value = self._bellmanOperator(v). The object is left as it was,
\* so one call on each object shows every call.
BellmanCall ==
    /\ kind = "MDP" /\ pc = "ready"
    /\ ret.err = "nocall"
    /\ \E v \in ValueVectors(states) :
        /\ Varg' = v
        /\ ret' = bellmanOperator(Self, v)
    /\ UNCHANGED <<args, policy0, kind, pc, err, fields, V, policy, iter,
                   max_iter, thresh, locals, prev>>

NextB == BellmanCall

SpecBellman == InitB /\ [][NextB]_vars

\* ------------------------------------------------------------ properties
\* What the caller passed, read without the solver's own fields.
NumStates == states
NumActions == Len0(succ_s)
Branching == Len0(succ_s[0]) \div states
StateSet == 0 .. NumStates - 1
ActionSet == 0 .. NumActions - 1

ValidConfiguration ==
    /\ RLt(RZero, discount) /\ RLe(discount, ROne)
    /\ RLt(RZero, epsilon)
    /\ max_iter_arg > 0

\* sum over the successors i of (a, s): probability * v[successor]
RECURSIVE ExpectedValue(_, _, _, _)
ExpectedValue(a, s, v, i) ==
    IF i = Branching THEN RZero
    ELSE RAdd(RMul(probability_s[a][s * Branching + i],
                   v[succ_s[a][s * Branching + i]]),
              ExpectedValue(a, s, v, i + 1))

\* Q(s, a) = reward[a][s] + discount * sum_i probability * v[successor],
\* on the caller's flat arrays and reward vector.
QOf(a, s, v) == RAdd(Rin[s], RMul(discount, ExpectedValue(a, s, v, 0)))

\* C1: for every value vector of one entry per state, the Bellman operator
\* returns value[s] = max over a of Q(s, a) and policy[s] = the smallest
\* action index attaining that maximum.
BellmanIsFirstArgmax ==
    (ret.err # "nocall" /\ Len0(Varg) = NumStates) =>
        /\ ret.err = ""
        /\ DOMAIN ret.value = StateSet /\ DOMAIN ret.policy = StateSet
        /\ \A s \in StateSet :
            /\ ret.policy[s] \in ActionSet
            /\ \A a \in ActionSet : RLe(QOf(a, s, Varg), ret.value[s])
            /\ QOf(ret.policy[s], s, Varg) = ret.value[s]
            /\ \A a \in ActionSet :
                a < ret.policy[s] => RLt(QOf(a, s, Varg), ret.value[s])

\* A call on three actions where one state's maximum is attained first by
\* action 1 and again by action 2, and another state's by action 0 alone.
BellmanTieReached ==
    /\ ret.err = "" /\ NumActions = 3 /\ NumStates = 2
    /\ \E s \in StateSet :
        /\ ret.policy[s] = 1
        /\ QOf(2, s, Varg) = ret.value[s]
        /\ RLt(QOf(0, s, Varg), ret.value[s])
    /\ \E s \in StateSet :
        /\ ret.policy[s] = 0
        /\ \A a \in ActionSet \ {0} : RLt(QOf(a, s, Varg), ret.value[s])

\* The solver of this kind exists: its __init__ returned, and run() may have
\* been entered.
Constructed ==
    /\ kind \in {"VI", "GS", "PI"}
    /\ \/ pc \in {"ready", "loop", "final", "done"}
       \/ pc = "error" /\ iter > 0

\* C2: after run() every policy entry is an action index, 0 <= policy[s] < A,
\* and policy and V have one entry per state, for each of the three solvers,
\* a policy-iteration run started from a validated policy0 included.
PolicyInRangeAfterRun ==
    (kind \in {"VI", "GS", "PI"} /\ pc = "done") =>
        /\ Len0(policy) = NumStates
        /\ Len0(V) = NumStates
        /\ \A s \in DOMAIN policy : policy[s] \in ActionSet

\* C3: for every valid configuration each of the three solvers can be
\* constructed from the compact arrays and rewards without raising, and its
\* run() ends as Converged or MaxIterReached with V and policy set.
ValidInputSolves ==
    (kind \in {"VI", "GS", "PI"} /\ ValidConfiguration /\ policy0 = None) =>
        /\ pc # "error"
        /\ pc = "done" =>
            /\ stop \in {"Converged", "MaxIterReached"}
            /\ V # None /\ policy # None

\* C4: from a valid configuration a value-iteration run (either variant)
\* reaches its iterations and stops at the first one whose variation is below
\* the threshold or whose count equals the effective max_iter (the supplied
\* cap when the discount is 1); it never goes past that count.
ValueIterationStops ==
    (kind \in VIKinds /\ ValidConfiguration) =>
        /\ pc # "error"
        /\ iter <= max_iter
        /\ pc = "loop" => ~RLt(variation, thresh) /\ iter # max_iter
        /\ pc \in {"final", "done"} => RLt(variation, thresh) \/ iter = max_iter
        /\ (pc # "init" /\ discount = ROne) => max_iter = max_iter_arg

\* C5: every pass of policy iteration's loop counts one outer iteration and
\* never exceeds max_iter; it stops as Converged exactly when the improved
\* policy differs from the current one in zero states, as MaxIterReached when
\* it differs and the count equals max_iter, and otherwise adopts the
\* improved policy and goes on; the inner evaluation takes at most 100 steps.
\* A pass that raises instead does none of the three.
PolicyIterationLoopPass ==
    (kind = "PI" /\ pc \in {"ready", "loop"}) =>
        /\ pc' \in {"loop", "done"}
        /\ LET improved == policy_next'
               \* the improved policy has one entry per state; over a longer
               \* current policy a single entry stands against every entry
               differing == {i \in DOMAIN policy :
                                improved[IF i \in DOMAIN improved THEN i ELSE 0]
                                    # policy[i]}
           IN /\ iter' = iter + 1 /\ iter' <= max_iter
              /\ eval_itr' >= 1 /\ eval_itr' <= 100
              /\ n_different' = Cardinality(differing)
              /\ (pc' = "done" /\ stop' = "Converged") <=> differing = {}
              /\ (pc' = "done" /\ stop' = "MaxIterReached") <=>
                     (differing # {} /\ iter' = max_iter)
              /\ pc' = "loop" <=> (differing # {} /\ iter' # max_iter)
              /\ pc' = "loop" => policy' = policy_next' /\ stop' = "none"
              /\ pc' = "done" => policy' = policy

PolicyIterationLoop == [][PolicyIterationLoopPass]_vars

\* The outcome of the current solver, in the shape of the one set aside.
Current == [kind |-> kind, pc |-> pc, err |-> err, stop |-> stop,
            policy |-> policy, V |-> V, iter |-> iter]

\* C6: on the same problem and discount the Gauss-Seidel variant and the
\* standard variant both finish, return the same policy, values within
\* epsilon of each other, and Gauss-Seidel takes no more sweeps than the
\* standard variant takes iterations.
GaussSeidelAgreesWithStandard ==
    (ValidConfiguration /\ prev.kind \in VIKinds /\ kind \in VIKinds
        /\ pc \in {"done", "error"}) =>
        LET vi == IF kind = "VI" THEN Current ELSE prev
            gs == IF kind = "GS" THEN Current ELSE prev
        IN /\ vi.pc = "done" /\ gs.pc = "done"
           /\ vi.policy = gs.policy
           /\ \A s \in StateSet : RLe(RAbs(RSub(vi.V[s], gs.V[s])), epsilon)
           /\ gs.iter <= vi.iter

\* One state, one action leading back to it, reward 5, discount 0.5.
SingleStateScenario ==
    /\ NumStates = 1 /\ NumActions = 1 /\ Branching = 1
    /\ rewardForm = "ndarray" /\ Rin[0] = Rat(5)
    /\ discount = <<1, 2>>
    /\ ValidConfiguration

\* C7: in the single-state scenario the Gauss-Seidel solver constructs, its
\* run ends as Converged with policy [0] and V[0] within epsilon of
\* 5 / (1 - 0.5) = 10.
SingleStateSolved ==
    (SingleStateScenario /\ kind = "GS") =>
        /\ pc # "error"
        /\ pc = "done" =>
            /\ stop = "Converged"
            /\ policy = [s \in {0} |-> 0]
            /\ RLe(RAbs(RSub(V[0], Rat(10))), epsilon)

\* C8: a supplied policy0 is accepted only if it has one entry per state and
\* every entry is an integer action index in [0, A).
Policy0Validated ==
    (kind = "PI" /\ policy0 # None /\ Constructed) =>
        /\ Len0(policy0) = NumStates
        /\ \A i \in DOMAIN policy0 :
            /\ RIsInt(policy0[i])
            /\ policy0[i][1] \in ActionSet

\* C9: with a discount outside (0, 1], an epsilon <= 0 or a max_iter <= 0,
\* construction fails (by an assert, in the two solvers that reach them)
\* before any solving: V, policy and the iteration count are never set.
InvalidConfigurationRejected ==
    (kind \in {"VI", "GS", "PI"} /\ ~ValidConfiguration) =>
        /\ pc = "error"
        /\ kind # "VI" => err \in {"AssertionError:discount",
                                   "AssertionError:max_iter",
                                   "AssertionError:epsilon"}
        /\ iter = 0 /\ V = None /\ policy = None
        /\ stop = "none"

\* A Gauss-Seidel construction refused for its max_iter alone.
MaxIterRejected ==
    /\ kind = "GS" /\ pc = "error" /\ err = "AssertionError:max_iter"
    /\ max_iter_arg <= 0
    /\ RLt(RZero, discount) /\ RLe(discount, ROne) /\ RLt(RZero, epsilon)
    /\ V = None /\ policy = None /\ iter = 0

\* C10: a reward given as a 1-D vector of one entry per state is resolved
\* to reward[a][s] = rewardInput[s] for every action a and state s, whatever
\* A and S are, A = S included.
VectorRewardResolved ==
    (kind \in {"GS", "PI"} /\ ValidConfiguration) =>
        /\ DOMAIN R = ActionSet
        /\ \A a \in ActionSet :
            /\ DOMAIN R[a] = StateSet
            /\ \A s \in StateSet : R[a][s] = Rin[s]

\* The lowest-index action attaining max over a of Q(s, a) on the value
\* function v.
GreedyAction(s, v) ==
    CHOOSE a \in ActionSet :
        /\ \A b \in ActionSet : RLe(QOf(b, s, v), QOf(a, s, v))
        /\ \A b \in ActionSet : b < a => RLt(QOf(b, s, v), QOf(a, s, v))

\* C11: the pass after the Gauss-Seidel loop returns, for every state s, the
\* lowest-index argmax of Q(s, a) on the value function V held when the loop
\* stopped: the returned policy is the greedy policy of that one V.
FinalPassGreedyStep ==
    (kind = "GS" /\ pc = "final" /\ pc' = "done") =>
        /\ DOMAIN policy' = StateSet
        /\ \A s \in StateSet : policy'[s] = GreedyAction(s, V)

FinalPassIsGreedyOfOneV == [][FinalPassGreedyStep]_vars

\* x = max over a of Q(s, a) on the value function v.
IsMaxQ(s, v, x) ==
    /\ \A a \in ActionSet : RLe(QOf(a, s, v), x)
    /\ \E a \in ActionSet : QOf(a, s, v) = x

\* What the backup of state s reads in a sweep from old to new: the new
\* values of the states below s, the old values of s and the states above.
SeenBy(s, old, new) == [t \in StateSet |-> IF t < s THEN new[t] ELSE old[t]]

\* x = max(d) - min(d)
IsSpan(d, x) ==
    \E i \in DOMAIN d, j \in DOMAIN d :
        /\ x = RSub(d[i], d[j])
        /\ \A k \in DOMAIN d : RLe(d[j], d[k]) /\ RLe(d[k], d[i])

\* C12: in every Gauss-Seidel sweep the states are backed up in the order
\* 0 .. S-1 and V[s] is overwritten at once, so the backup of s reads this
\* sweep's values for the states below s and the previous sweep's for s and
\* above; the sweep's variation is the span of V after the sweep minus V
\* before it.
GaussSeidelSweepStep ==
    (kind = "GS" /\ pc \in {"ready", "loop"} /\ pc' \in {"loop", "final"}) =>
        /\ DOMAIN V' = StateSet
        /\ \A s \in StateSet : IsMaxQ(s, SeenBy(s, V, V'), V'[s])
        /\ IsSpan([s \in StateSet |-> RSub(V'[s], V[s])], variation')
        /\ iter' = iter + 1

GaussSeidelSweepInPlace == [][GaussSeidelSweepStep]_vars

\* A sweep just made in which some state's new value is not the backup of
\* the values before the sweep: it read a value written earlier in the sweep.
SweepReadUpdatedValue ==
    /\ kind = "GS" /\ pc \in {"loop", "final"} /\ iter >= 1
    /\ \E s \in StateSet :
        /\ s > 0
        /\ ~IsMaxQ(s, Vprev, V[s])
        /\ IsMaxQ(s, SeenBy(s, Vprev, V), V[s])

\* One synchronous evaluation backup of the policy pol on v:
\* V[s] = reward[pol[s]][s] + discount * sum prob[pol[s]][s] * v[succ[pol[s]][s]]
PolicyBackup(pol, v) == [s \in StateSet |-> QOf(pol[s], s, v)]

\* n such backups, starting from v.
RECURSIVE PolicyIterate(_, _, _)
PolicyIterate(pol, v, n) ==
    IF n = 0 THEN v
    ELSE IF n = 1 THEN PolicyBackup(pol, v)
    ELSE LET half == PolicyIterate(pol, v, n \div 2)
         IN IF half = half THEN PolicyIterate(pol, half, n - (n \div 2)) ELSE half

\* The current policy names an action for every state.
PolicyOverActions ==
    /\ DOMAIN policy = StateSet
    /\ \A s \in StateSet : policy[s] \in ActionSet

\* C13: for any number of actions and any branching factor, a policy
\* evaluation step of policy iteration evaluates the model that gives each
\* state s the successors, probabilities and reward of the action policy[s]:
\* it does not fail, and the V it leaves is the result of its eval_itr
\* synchronous backups V[s] = Rpolicy[s] + discount * sum prob * V[succ] from 0.
PolicyEvaluationStep ==
    (kind = "PI" /\ pc \in {"ready", "loop"} /\ PolicyOverActions) =>
        /\ pc' # "error"
        /\ eval_itr' >= 1
        /\ V' = PolicyIterate(policy, Zeros(NumStates), eval_itr')

PolicyEvaluationOnInducedModel == [][PolicyEvaluationStep]_vars

\* The same, for branching factor A - 1 alone.
PolicyEvaluationStepFull ==
    Branching = NumActions - 1 => PolicyEvaluationStep

PolicyEvaluationFullRows == [][PolicyEvaluationStepFull]_vars

====
